---- MODULE Spec2Model ----
(***************************************************************************)
(* Concordance ratio model (src/concordance_ratio_model.py).               *)
(*                                                                         *)
(* A DataFrame is a sequence of records (its rows, in index order).  A     *)
(* date is a day number; the missing date is NaT.  A score is a rational   *)
(* <<numerator, denominator>>; the missing score is NaN.                   *)
(***************************************************************************)
EXTENDS Integers, Sequences, FiniteSets, TLC

\* Bounds of the model.
MaxRows == 3
MaxLen == 2
MaxValidity == 2

\* pandas' missing values: NaT in a date column (also used for a missing
\* cell of an indicator column), NaN in a score column.
NaT == -1
NaN == <<>>

Patients == {1, 2}
Columns == {"A", "B"}

\* The evaluation start used by the bounded inputs: day 0 is the dummy date
\* of the largest validity duration and earlier than the dummy date of the
\* others.
StartDay == MaxValidity
Days == 0..(StartDay + MaxLen)

-----------------------------------------------------------------------------
\* Generic helpers for sequences (pandas primitives).

Max(S) == CHOOSE x \in S : \A y \in S : y <= x

\* The rows of s whose index is in I, in index order (boolean-mask selection).
SelectIdx(s, I) ==
    LET f[k \in 0..Len(s)] ==
            IF k = 0 THEN <<>>
            ELSE IF k \in I THEN Append(f[k-1], s[k]) ELSE f[k-1]
    IN  f[Len(s)]

\* Series.unique(): the values in order of first appearance.
Unique(s) == SelectIdx(s, {i \in DOMAIN s : \A j \in 1..(i-1) : s[j] # s[i]})

\* DataFrame.drop_duplicates(): the first of every group of identical rows.
DropDuplicates(s) == SelectIdx(s, {i \in DOMAIN s : \A j \in 1..(i-1) : s[j] # s[i]})

\* Mutant of ClipLower: the clip is left out.
ClipLowerOff(x, lo) == x

\* Series.clip(lower=lo)
ClipLower(x, lo) == IF x < lo THEN lo ELSE x

\* Order of sort_values(by=[patient_col, date_col]).
RowLE(a, b) == \/ a.patient < b.patient
               \/ a.patient = b.patient /\ a.date <= b.date

\* sort_values(by=[patient_col, date_col]): a stable sort (lexsort).
SortValues(s) ==
    LET Insert(t, r) ==
            LET i == Cardinality({j \in DOMAIN t : RowLE(t[j], r)})
            IN  SubSeq(t, 1, i) \o <<r>> \o SubSeq(t, i + 1, Len(t))
        f[k \in 0..Len(s)] == IF k = 0 THEN <<>> ELSE Insert(f[k-1], s[k])
    IN  f[Len(s)]

PatientCol(df) == [i \in DOMAIN df |-> df[i].patient]

-----------------------------------------------------------------------------
\* prepare_df_for_concordance_ratio

\* df[df[date_col] < evaluation_start_date].groupby(patient_col)[date_col].max()
\* (a comparison with NaT is False)
DatesBefore(df, p, start) ==
    {df[i].date : i \in {j \in DOMAIN df :
        df[j].patient = p /\ df[j].date # NaT /\ df[j].date < start}}

\* Mutant of LastDateBeforeEvaluation: the last date before the start is kept
\* as it is, however early.
LastDateBeforeUnclipped(df, validity_duration, start) ==
    LET dummy_date == start - validity_duration
        all_patients == Unique(PatientCol(df))
    IN  [i \in DOMAIN all_patients |->
            LET before == DatesBefore(df, all_patients[i], start)
            IN  [patient |-> all_patients[i],
                 date |-> IF before = {} THEN dummy_date ELSE Max(before),
                 ind |-> NaT]]

\* The anchor rows: one per patient, the clipped last date before the
\* evaluation start, or the dummy date when the patient has none.
LastDateBeforeEvaluation(df, validity_duration, start) ==
    LET dummy_date == start - validity_duration
        all_patients == Unique(PatientCol(df))
    IN  [i \in DOMAIN all_patients |->
            LET before == DatesBefore(df, all_patients[i], start)
            IN  [patient |-> all_patients[i],
                 date |-> IF before = {} THEN dummy_date
                          ELSE ClipLower(Max(before), dummy_date),
                 ind |-> NaT]]

\* Mutant of EvaluationPeriod: the dates after the evaluation end are kept.
EvaluationPeriodOpenEnded(df, start, end) ==
    SelectSeq(df, LAMBDA r : r.date # NaT /\ r.date >= start)

\* The rows dated within the evaluation period.
EvaluationPeriod(df, start, end) ==
    SelectSeq(df, LAMBDA r : r.date # NaT /\ r.date >= start /\ r.date <= end)

\* Mutant of DayAfterEndDate: the extra date is two days after the end.
DayAfterEndDateLate(df, end) ==
    LET all_patients == Unique(PatientCol(df))
    IN  [i \in DOMAIN all_patients |->
            [patient |-> all_patients[i], date |-> end + 2, ind |-> NaT]]

\* One row per patient, dated one day after the evaluation end.
DayAfterEndDate(df, end) ==
    LET all_patients == Unique(PatientCol(df))
    IN  [i \in DOMAIN all_patients |->
            [patient |-> all_patients[i], date |-> end + 1, ind |-> NaT]]

PrepareDf(df, validity_duration, start, end) ==
    DropDuplicates(SortValues(
        EvaluationPeriod(df, start, end)
        \o LastDateBeforeEvaluation(df, validity_duration, start)
        \o DayAfterEndDate(df, end)))

-----------------------------------------------------------------------------
\* calc_ratio_of_concordant_period

\* df[df[indicator] == 1][[date_col, indicator, patient_col]]
FilterIndicator(df, indicator) ==
    LET flagged == SelectSeq(df, LAMBDA r : r.ind[indicator] = 1)
    IN  [i \in DOMAIN flagged |->
            [patient |-> flagged[i].patient, date |-> flagged[i].date,
             ind |-> flagged[i].ind[indicator]]]

\* The prepared timeline of one indicator, as calc_ratio_of_concordant_period
\* obtains it.
PreparedFor(df, indicator, start, evaluation_length, validity_duration) ==
    PrepareDf(FilterIndicator(df, indicator), validity_duration, start,
              start + (evaluation_length - 1))

\* groupby(patient_col)[date_col].shift(1): the date of the previous row of
\* the same patient, NaT for the first row of a patient.
WithPrevDate(df) ==
    [i \in DOMAIN df |->
        LET same == {j \in 1..(i-1) : df[j].patient = df[i].patient}
        IN  [patient |-> df[i].patient, date |-> df[i].date,
             prev_date |-> IF same = {} THEN NaT ELSE df[Max(same)].date]]

\* dropna(subset=['prev_date'])
DropNaPrevDate(df) == SelectSeq(df, LAMBDA r : r.prev_date # NaT)

\* Mutant of DaysNotConcordant: the validity duration is not subtracted.
DaysBetweenActivities(r, validity_duration) ==
    ClipLower(r.date - r.prev_date, 0)

\* days_between_activities - validity_duration, clipped at 0
DaysNotConcordant(r, validity_duration) ==
    ClipLower((r.date - r.prev_date) - validity_duration, 0)

RECURSIVE SumSeq(_)
SumSeq(s) == IF s = <<>> THEN 0 ELSE Head(s) + SumSeq(Tail(s))

\* groupby(patient_col)['days_not_concordant'].transform('sum') of patient p
TotalNotConcordant(df, p, validity_duration) ==
    LET own == SelectSeq(df, LAMBDA r : r.patient = p)
    IN  SumSeq([i \in DOMAIN own |-> DaysNotConcordant(own[i], validity_duration)])

\* (evaluation_length - total) / evaluation_length, as a rational
Ratio(total, evaluation_length) == <<evaluation_length - total, evaluation_length>>

\* Lines 114-135: the score table of a prepared timeline, one row per patient
\* (drop_duplicates(keep='first', subset=patient_col)).
ScoreRows(prepared, evaluation_length, validity_duration) ==
    LET gaps == DropNaPrevDate(WithPrevDate(prepared))
        first == SelectIdx(gaps, {i \in DOMAIN gaps :
                     \A j \in 1..(i-1) : gaps[j].patient # gaps[i].patient})
    IN  [i \in DOMAIN first |->
            [patient |-> first[i].patient,
             score |-> Ratio(TotalNotConcordant(gaps, first[i].patient, validity_duration),
                             evaluation_length)]]

CalcRatio(df, indicator, start, evaluation_length, validity_duration) ==
    ScoreRows(PreparedFor(df, indicator, start, evaluation_length, validity_duration),
              evaluation_length, validity_duration)

-----------------------------------------------------------------------------
\* load_validity_periods and validate_inputs

\* str.lower() on the names of the model
Lower(s) == CASE s = "A" -> "a" [] s = "B" -> "b" [] OTHER -> s

\* {key.lower(): value for key, value in validity_periods.items()}
\* (the dictionaries of the model have no two keys equal up to case)
LoadValidityPeriods(vp) ==
    [k \in {Lower(key) : key \in DOMAIN vp} |->
        vp[CHOOSE key \in DOMAIN vp : Lower(key) = k]]

\* Mutant of MissingIndicators: the indicator is looked up as written.
MissingIndicatorsCaseSensitive(inds, vp_lower) ==
    SelectSeq(inds, LAMBDA ind : ind \notin DOMAIN vp_lower)

\* [ind for ind in indicators if ind.lower() not in validity_periods_lower]
MissingIndicators(inds, vp_lower) ==
    SelectSeq(inds, LAMBDA ind : Lower(ind) \notin DOMAIN vp_lower)

\* The checks of validate_inputs that depend on the data, in the order of
\* the code; "ok" when all pass.  (The type checks, the date parsing and the
\* column check do not fail on the tables of the model.)
ValidateInputs(df, evaluation_length, inds, vp_lower) ==
    IF df = <<>> THEN [kind |-> "empty_df", names |-> <<>>]
    ELSE IF evaluation_length <= 0 THEN [kind |-> "evaluation_length", names |-> <<>>]
    ELSE IF inds = <<>> THEN [kind |-> "no_indicators", names |-> <<>>]
    ELSE IF MissingIndicators(inds, vp_lower) # <<>>
         THEN [kind |-> "missing_validity", names |-> MissingIndicators(inds, vp_lower)]
    ELSE [kind |-> "ok", names |-> <<>>]

-----------------------------------------------------------------------------
\* calc_concordance_with_ratio

\* df[df[indicator] == 1][date_col].isna().sum()
MissingDates(df, indicator) ==
    Len(SelectSeq(df, LAMBDA r : r.ind[indicator] = 1 /\ r.date = NaT))

\* pd.DataFrame(df[patient_col].unique(), columns=[patient_col])
AllPatientsFrame(df) ==
    LET u == Unique(PatientCol(df))
    IN  [i \in DOMAIN u |-> [patient |-> u[i], scores |-> <<>>]]

\* The ascending sequence of a set of patients.
RECURSIVE Ascending(_)
Ascending(S) ==
    IF S = {} THEN <<>>
    ELSE LET m == CHOOSE x \in S : \A y \in S : x <= y
         IN  <<m>> \o Ascending(S \ {m})

\* Mutant of MergeOuter: an inner join, the patients without a score dropped.
MergeInner(left, right) ==
    LET both == SelectSeq(left, LAMBDA l : \E i \in DOMAIN right : right[i].patient = l.patient)
    IN  [n \in DOMAIN both |->
            [patient |-> both[n].patient,
             scores |-> Append(both[n].scores,
                               right[CHOOSE i \in DOMAIN right :
                                         right[i].patient = both[n].patient].score)]]

\* pd.merge(df_scores_all, df_scores, on=patient_col, how='outer'): one row
\* per pair of rows with the same key, the rows without a partner kept with
\* missing values, keys in ascending order.  scores is the sequence of the
\* concordance_<indicator> columns, in the order they were merged.
MergeOuter(left, right) ==
    LET keys == Ascending({left[i].patient : i \in DOMAIN left}
                          \cup {right[i].patient : i \in DOMAIN right})
        ncols == IF left = <<>> THEN 0 ELSE Len(left[1].scores)
        RowsOf(p) ==
            LET ls == SelectSeq(left, LAMBDA r : r.patient = p)
                rs == SelectSeq(right, LAMBDA r : r.patient = p)
                lsc == IF ls = <<>> THEN <<[n \in 1..ncols |-> NaN]>>
                       ELSE [i \in DOMAIN ls |-> ls[i].scores]
                rsc == IF rs = <<>> THEN <<NaN>>
                       ELSE [i \in DOMAIN rs |-> rs[i].score]
            IN  [n \in 1..(Len(lsc) * Len(rsc)) |->
                    [patient |-> p,
                     scores |-> Append(lsc[((n - 1) \div Len(rsc)) + 1],
                                       rsc[((n - 1) % Len(rsc)) + 1])]]
        f[k \in 0..Len(keys)] ==
            IF k = 0 THEN <<>> ELSE f[k-1] \o RowsOf(keys[k])
    IN  f[Len(keys)]

\* Rational arithmetic for DataFrame.mean(axis=1)
RatAdd(a, b) == <<a[1] * b[2] + b[1] * a[2], a[2] * b[2]>>
RatDiv(a, n) == <<a[1], a[2] * n>>
RatEq(a, b) == a[1] * b[2] = b[1] * a[2]
RatLE(a, b) == a[1] * b[2] <= b[1] * a[2]

RECURSIVE RatSum(_)
RatSum(s) == IF s = <<>> THEN <<0, 1>> ELSE RatAdd(Head(s), RatSum(Tail(s)))

\* Mutant of RowMean: a missing score counts as 0.
RowMeanZeroFill(scores) ==
    LET present == SelectSeq(scores, LAMBDA x : x # NaN)
    IN  IF scores = <<>> THEN NaN ELSE RatDiv(RatSum(present), Len(scores))

\* mean(axis=1) of a row: the missing values are skipped, NaN when all are missing
RowMean(scores) ==
    LET present == SelectSeq(scores, LAMBDA x : x # NaN)
    IN  IF present = <<>> THEN NaN ELSE RatDiv(RatSum(present), Len(present))

-----------------------------------------------------------------------------
\* The state: the arguments of calc_concordance_with_ratio, its position, and
\* its local variables.

VARIABLES
    df_,                    \* the input table
    evaluation_start_date,
    evaluation_length,
    indicators,             \* the requested indicators, a list
    validity_periods,       \* the validity_periods dictionary
    pc,                     \* "call", "loop", "done" or "raised"
    k,                      \* position of the for loop in indicators
    validity_periods_lower,
    error,                  \* what validate_inputs found
    warnings,               \* the warnings printed, <<indicator, count>>
    df_prepared,            \* the prepared timeline of the last indicator scored
    df_scores_all,          \* the merged score table
    returned                \* the table returned

vars == <<df_, evaluation_start_date, evaluation_length, indicators, validity_periods,
          pc, k, validity_periods_lower, error, warnings, df_prepared, df_scores_all,
          returned>>

inputs == <<df_, evaluation_start_date, evaluation_length, indicators, validity_periods>>

\* Tables of at most n rows drawn from rows.
Tables(rows, n) == UNION {[1..m -> rows] : m \in 0..n}

\* The rows of t are in the reverse of the order sort_values establishes.
Descending(t) == \A i \in 1..(Len(t) - 1) : RowLE(t[i+1], t[i])

\* Orchestration inputs: rows flagged for any subset of two indicators, dated
\* at the evaluation start or without a date, in every row order.
OrchRows == [patient : Patients, date : {NaT, StartDay}, ind : [Columns -> {0, 1}]]
OrchIndicators == {<<>>, <<"A">>, <<"A", "B">>, <<"B", "A">>}
OrchValidity == {<<>>, [a |-> 1], [B |-> 0],
                 [a |-> 1, b |-> MaxValidity], [A |-> 0, B |-> 1]}

Init ==
    /\ df_ \in Tables(OrchRows, MaxRows - 1)
    /\ evaluation_start_date = StartDay
    /\ evaluation_length \in 0..MaxLen
    /\ indicators \in OrchIndicators
    /\ validity_periods \in OrchValidity
    /\ pc = "call"
    /\ k = 1
    /\ validity_periods_lower = <<>>
    /\ error = [kind |-> "none", names |-> <<>>]
    /\ warnings = <<>>
    /\ df_prepared = <<>>
    /\ df_scores_all = <<>>
    /\ returned = <<>>

\* Lines 177-187: load and validate, then the frame of all patients.
Validate ==
    /\ pc = "call"
    /\ LET lower == LoadValidityPeriods(validity_periods)
           found == ValidateInputs(df_, evaluation_length, indicators, lower)
       IN  /\ validity_periods_lower' = lower
           /\ error' = found
           /\ IF found.kind = "ok"
              THEN /\ pc' = "loop"
                   /\ df_scores_all' = AllPatientsFrame(df_)
              ELSE /\ pc' = "raised"
                   /\ UNCHANGED df_scores_all
    /\ UNCHANGED <<inputs, k, warnings, df_prepared, returned>>

\* Lines 189-201: one iteration of the loop over the indicators.
ScoreIndicator ==
    /\ pc = "loop"
    /\ k <= Len(indicators)
    /\ LET indicator == indicators[k]
           missing_dates == MissingDates(df_, indicator)
           validity_duration == validity_periods_lower[Lower(indicator)]
           prepared == PreparedFor(df_, indicator, evaluation_start_date,
                                   evaluation_length, validity_duration)
           df_scores == ScoreRows(prepared, evaluation_length, validity_duration)
       IN  /\ warnings' = IF missing_dates > 0
                          THEN Append(warnings, <<indicator, missing_dates>>)
                          ELSE warnings
           /\ df_prepared' = prepared
           /\ df_scores_all' = MergeOuter(df_scores_all, df_scores)
    /\ k' = k + 1
    /\ UNCHANGED <<inputs, pc, validity_periods_lower, error, returned>>

\* Lines 203-208: the concordance_total column, and the return.
Return ==
    /\ pc = "loop"
    /\ k > Len(indicators)
    /\ returned' = IF Len(indicators) > 1
                   THEN [i \in DOMAIN df_scores_all |->
                            [patient |-> df_scores_all[i].patient,
                             scores |-> df_scores_all[i].scores,
                             total |-> RowMean(df_scores_all[i].scores)]]
                   ELSE df_scores_all
    /\ pc' = "done"
    /\ UNCHANGED <<inputs, k, validity_periods_lower, error, warnings, df_prepared,
                   df_scores_all>>

Next == Validate \/ ScoreIndicator \/ Return

Spec == Init /\ [][Next]_vars

-----------------------------------------------------------------------------
\* The specifications of one indicator: calc_ratio_of_concordant_period on
\* activities before, inside and after the evaluation window, dated or not.
\* A table is enumerated once per multiset of rows, its rows in descending
\* order.

Flagged(c) == [x \in Columns |-> IF x = c THEN 1 ELSE 0]

RatioRows == [patient : Patients, date : Days \cup {NaT}, ind : {Flagged("A")}]

\* The scenario of the specification: start 2021-01-01 (day 10), length 10,
\* validity 5, activities on 2020-12-29, 2021-01-03 and 2021-01-09.
ScenarioTable ==
    <<[patient |-> 1, date |-> 18, ind |-> Flagged("A")],
      [patient |-> 1, date |-> 7, ind |-> Flagged("A")],
      [patient |-> 1, date |-> 12, ind |-> Flagged("A")]>>

IsScenario ==
    /\ df_ = ScenarioTable
    /\ evaluation_start_date = 10
    /\ evaluation_length = 10
    /\ validity_periods = [a |-> 5]

\* A call for the indicator A on a table of at most n rows, or on the scenario.
RatioInit(n) ==
    /\ \/ /\ df_ \in {t \in Tables(RatioRows, n) : Descending(t)}
          /\ evaluation_start_date = StartDay
          /\ evaluation_length \in 1..MaxLen
          /\ validity_periods \in {[a |-> v] : v \in 0..MaxValidity}
       \/ IsScenario
    /\ indicators = <<"A">>
    /\ pc = "call"
    /\ k = 1
    /\ validity_periods_lower = <<>>
    /\ error = [kind |-> "none", names |-> <<>>]
    /\ warnings = <<>>
    /\ df_prepared = <<>>
    /\ df_scores_all = <<>>
    /\ returned = <<>>

InitRatio == RatioInit(MaxRows)

RatioSpec == InitRatio /\ [][Next]_vars

\* The tables to which one more activity is added: one row shorter.
InitAdd == RatioInit(MaxRows - 1)

AddSpec == InitAdd /\ [][Next]_vars

-----------------------------------------------------------------------------
\* Vocabulary of the properties, read off the input table.

EvalEnd == evaluation_start_date + (evaluation_length - 1)

ValidityOf(c) == validity_periods_lower[Lower(c)]

\* The patient has a row flagged 1 for column c (dated or not).
HasFlagged(p, c) == \E i \in DOMAIN df_ : df_[i].patient = p /\ df_[i].ind[c] = 1

\* The dates of the patient's dated rows flagged 1 for column c.
ActivityDates(p, c) ==
    {df_[i].date : i \in {j \in DOMAIN df_ :
        df_[j].patient = p /\ df_[j].ind[c] = 1 /\ df_[j].date # NaT}}

Before(p, c) == {d \in ActivityDates(p, c) : d < evaluation_start_date}
InWindow(p, c) == {d \in ActivityDates(p, c) : d >= evaluation_start_date /\ d <= EvalEnd}
After(p, c) == {d \in ActivityDates(p, c) : d > EvalEnd}

Min(S) == CHOOSE x \in S : \A y \in S : x <= y
Pred(T, d) == Max({x \in T : x < d})

\* The score of patient p in column j of a merged table; NaN when the
\* patient has no row.
ScoreIn(table, p, j) ==
    LET rows == {i \in DOMAIN table : table[i].patient = p}
    IN  IF rows = {} THEN NaN ELSE table[CHOOSE i \in rows : TRUE].scores[j]

\* The score of patient p in a score table of one indicator; NaN when the
\* patient has no row.
ScoreOf(table, p) ==
    LET rows == {i \in DOMAIN table : table[i].patient = p}
    IN  IF rows = {} THEN NaN ELSE table[CHOOSE i \in rows : TRUE].score

\* The timeline the specification describes: the anchor, the in-window dates
\* and the day after the evaluation end, as a set of dates.
SpecAnchor(p, c) ==
    LET dummy_date == evaluation_start_date - ValidityOf(c)
    IN  IF Before(p, c) = {} \/ Max(Before(p, c)) < dummy_date
        THEN dummy_date ELSE Max(Before(p, c))

SpecTimeline(p, c) == {SpecAnchor(p, c)} \cup InWindow(p, c) \cup {EvalEnd + 1}

\* The sum over the consecutive pairs (Pred(T, d), d), d in rest, of
\* max(0, gap - v).
RECURSIVE UncoveredSum(_, _, _)
UncoveredSum(T, rest, v) ==
    IF rest = {} THEN 0
    ELSE LET d == CHOOSE x \in rest : TRUE
             gap == d - Pred(T, d)
         IN  (IF gap - v > 0 THEN gap - v ELSE 0) + UncoveredSum(T, rest \ {d}, v)

SpecUncovered(p, c) ==
    LET T == SpecTimeline(p, c)
    IN  UncoveredSum(T, T \ {Min(T)}, ValidityOf(c))

-----------------------------------------------------------------------------
\* C1: every score computed for a patient and an indicator is a number in
\* [0, 1]: its total of uncovered days is at least 0 and at most the
\* evaluation length, whatever the activity dates (validity >= 0, length >= 1).
C1_ScoreInUnitInterval ==
    pc = "done" =>
        \A i \in DOMAIN returned : \A j \in DOMAIN indicators :
            LET s == returned[i].scores[j]
                total_uncovered == evaluation_length - s[1]
            IN  s # NaN =>
                    /\ s[2] = evaluation_length
                    /\ total_uncovered >= 0
                    /\ total_uncovered <= evaluation_length

\* A patient with activities before, inside and after the window whose score
\* is strictly between 0 and 1.
C1_Witness ==
    /\ pc = "done"
    /\ \E p \in Patients :
        /\ Before(p, "A") # {} /\ InWindow(p, "A") # {} /\ After(p, "A") # {}
        /\ ScoreIn(returned, p, 1)[1] > 0
        /\ ScoreIn(returned, p, 1)[1] < ScoreIn(returned, p, 1)[2]

\* C2: the score of every patient with a flagged row equals
\* (evaluation_length - total_uncovered) / evaluation_length, total_uncovered
\* being the sum over the consecutive pairs of the timeline [anchor, in-window
\* dates, evaluation end + 1] of max(0, gap - validity_duration); the scenario
\* of the specification gives total_uncovered = 1 and the ratio 9/10.
C2_ScoreIsCoverageRatio ==
    pc = "done" =>
        /\ \A p \in Patients : \A j \in DOMAIN indicators :
            HasFlagged(p, indicators[j]) =>
                /\ ScoreIn(returned, p, j) # NaN
                /\ ScoreIn(returned, p, j)
                     = <<evaluation_length - SpecUncovered(p, indicators[j]),
                         evaluation_length>>
        /\ IsScenario => /\ SpecUncovered(1, "A") = 1
                         /\ RatEq(ScoreIn(returned, 1, 1), <<9, 10>>)

\* The scenario of the specification has been scored 9/10.
C2_Witness ==
    /\ pc = "done"
    /\ IsScenario
    /\ ScoreIn(returned, 1, 1) = <<9, 10>>

\* The last activity before the evaluation start, if any, is not later than
\* the dummy date: the anchor is the dummy date.
PriorClipped(p, c) ==
    \A d \in Before(p, c) : d <= evaluation_start_date - ValidityOf(c)

\* C5: two patients with the same in-window activity dates get the same
\* score when each has no activity before the evaluation start, or only
\* activity at the dummy date or earlier than it, by any amount.
C5_AnchorClipping ==
    pc = "done" =>
        \A p, q \in Patients : \A j \in DOMAIN indicators :
            LET c == indicators[j]
            IN  (/\ HasFlagged(p, c) /\ HasFlagged(q, c)
                 /\ InWindow(p, c) = InWindow(q, c)
                 /\ PriorClipped(p, c) /\ PriorClipped(q, c))
                => ScoreIn(returned, p, j) = ScoreIn(returned, q, j)

\* One patient without prior activity and one whose prior activity is more
\* than validity_duration days before the start, same in-window dates.
C5_Witness ==
    /\ pc = "done"
    /\ Before(1, "A") = {}
    /\ Before(2, "A") # {}
    /\ Max(Before(2, "A")) < evaluation_start_date - ValidityOf("A")
    /\ InWindow(1, "A") # {}
    /\ InWindow(1, "A") = InWindow(2, "A")
    /\ ScoreIn(returned, 1, 1) = ScoreIn(returned, 2, 1)
    /\ ScoreIn(returned, 1, 1)[1] > 0

\* Every gap between consecutive dates of T is at most v.
GapsWithin(T, v) == \A d \in T \ {Min(T)} : d - Pred(T, d) <= v

\* The activities of the patient span the whole window with spacing of at
\* most validity_duration days.
PerfectCoverage(p, c) ==
    \/ /\ Before(p, c) # {}
       /\ Max(Before(p, c)) >= evaluation_start_date - ValidityOf(c)
       /\ GapsWithin({Max(Before(p, c))} \cup InWindow(p, c) \cup {EvalEnd + 1},
                     ValidityOf(c))
    \/ /\ InWindow(p, c) # {}
       /\ Min(InWindow(p, c)) = evaluation_start_date
       /\ GapsWithin(InWindow(p, c) \cup {EvalEnd + 1}, ValidityOf(c))

\* C6: a patient whose activities span the whole window with spacing of at
\* most validity_duration days has the ratio exactly 1.
C6_PerfectCoverage ==
    pc = "done" =>
        \A p \in Patients : \A j \in DOMAIN indicators :
            PerfectCoverage(p, indicators[j]) =>
                /\ ScoreIn(returned, p, j) # NaN
                /\ ScoreIn(returned, p, j)[1] = ScoreIn(returned, p, j)[2]

\* A patient covered by one activity before the start and one inside the
\* window, exactly validity_duration days apart, scored 1; the other patient
\* is not fully covered.
C6_Witness ==
    /\ pc = "done"
    /\ \E p \in Patients :
        /\ PerfectCoverage(p, "A")
        /\ Before(p, "A") # {} /\ InWindow(p, "A") # {}
        /\ Max(Before(p, "A")) >= evaluation_start_date - ValidityOf("A")
        /\ Min(InWindow(p, "A")) > evaluation_start_date
        /\ Min(InWindow(p, "A")) - Max(Before(p, "A")) = ValidityOf("A")
        /\ ScoreIn(returned, p, 1)[1] = evaluation_length
        /\ \E q \in Patients : /\ ScoreIn(returned, q, 1) # NaN
                               /\ ScoreIn(returned, q, 1)[1] < evaluation_length

\* The prepared timeline of each patient is sorted, has no two rows with the
\* same (patient, date), at most one row before the evaluation start and
\* exactly one row after the evaluation end, dated one day after it.
TimelineWellFormed(prepared) ==
    \A p \in {prepared[i].patient : i \in DOMAIN prepared} :
        LET own == SelectSeq(prepared, LAMBDA r : r.patient = p)
        IN  /\ \A i \in 1..(Len(own) - 1) : own[i].date <= own[i+1].date
            /\ \A i, j \in DOMAIN own : i # j => own[i].date # own[j].date
            /\ Cardinality({i \in DOMAIN own : own[i].date < evaluation_start_date}) <= 1
            /\ Cardinality({i \in DOMAIN own : own[i].date > EvalEnd}) = 1
            /\ \E i \in DOMAIN own : own[i].date = EvalEnd + 1

\* C9: for every input and every validity_duration >= 0 the timeline
\* produced by prepare_df_for_concordance_ratio is, for each patient, sorted
\* ascending by date, free of duplicate (patient, date) pairs, with at most
\* one row before the evaluation start and exactly one row (evaluation end
\* + 1 day) after the evaluation end.
C9_PreparedTimeline ==
    (pc \in {"loop", "done"} /\ k > 1) => TimelineWellFormed(df_prepared)

\* The dates at which an activity is added: from before the dummy date to
\* after the day after the evaluation end.
CandidateDates ==
    {d \in (evaluation_start_date - ValidityOf("A") - 1)..(EvalEnd + 2) : d >= 0}

\* The score table of indicator c after one more dated activity of patient p.
ScoresWithActivity(p, d, c) ==
    CalcRatio(Append(df_, [patient |-> p, date |-> d, ind |-> Flagged(c)]), c,
              evaluation_start_date, evaluation_length, ValidityOf(c))

\* C10: one more dated activity of a patient for an indicator, at any date,
\* never lowers that patient's score for the indicator and leaves the score
\* of every other patient unchanged.
C10_Monotone ==
    pc = "done" =>
        \A p \in Patients : \A d \in CandidateDates :
            LET new == ScoresWithActivity(p, d, "A")
            IN  \A q \in Patients :
                    IF q = p
                    THEN \/ ScoreIn(returned, p, 1) = NaN
                         \/ /\ ScoreOf(new, p) # NaN
                            /\ RatLE(ScoreIn(returned, p, 1), ScoreOf(new, p))
                    ELSE ScoreOf(new, q) = ScoreIn(returned, q, 1)

\* An added in-window activity strictly raises the score of a patient who
\* had activities already, while another patient is scored.
C10_Witness ==
    /\ pc = "done"
    /\ \E p \in Patients : \E d \in CandidateDates :
        /\ ScoreIn(returned, p, 1) # NaN
        /\ InWindow(p, "A") # {}
        /\ d >= evaluation_start_date /\ d <= EvalEnd
        /\ ~RatLE(ScoreOf(ScoresWithActivity(p, d, "A"), p), ScoreIn(returned, p, 1))
        /\ \E q \in Patients \ {p} : ScoreIn(returned, q, 1) # NaN

-----------------------------------------------------------------------------
\* The whole of calc_concordance_with_ratio on another table, for the
\* properties that compare two calls.

\* df_scores_all after the first n indicators of the loop.
RECURSIVE ScoresAfter(_, _, _, _, _, _)
ScoresAfter(df, start, len, inds, vp_lower, n) ==
    IF n = 0 THEN AllPatientsFrame(df)
    ELSE MergeOuter(ScoresAfter(df, start, len, inds, vp_lower, n - 1),
                    CalcRatio(df, inds[n], start, len, vp_lower[Lower(inds[n])]))

\* The score of patient p for the j-th indicator when the call is made on
\* table df; NaN when the call raises or the patient has no score.
ScoreOnTable(df, p, j) ==
    IF ValidateInputs(df, evaluation_length, indicators, validity_periods_lower).kind # "ok"
    THEN NaN
    ELSE ScoreIn(ScoresAfter(df, evaluation_start_date, evaluation_length, indicators,
                             validity_periods_lower, Len(indicators)), p, j)

RemoveAt(s, i) == SubSeq(s, 1, i - 1) \o SubSeq(s, i + 1, Len(s))

\* The rows flagged 1 for column c that have no date.
UndatedRows(c) == {i \in DOMAIN df_ : df_[i].ind[c] = 1 /\ df_[i].date = NaT}

\* C3: a row flagged 1 for an indicator whose date is missing raises no
\* error, is counted in a warning, and leaves every patient's score for that
\* indicator (and whether the patient has one) as it is without the row.
C3_UndatedRowExcluded ==
    pc = "done" =>
        \A j \in DOMAIN indicators :
            LET c == indicators[j]
            IN  /\ UndatedRows(c) # {} =>
                    \E w \in DOMAIN warnings :
                        warnings[w] = <<c, Cardinality(UndatedRows(c))>>
                /\ \A i \in UndatedRows(c) : \A p \in Patients :
                       ScoreIn(returned, p, j) = ScoreOnTable(RemoveAt(df_, i), p, j)

Present(scores) == {j \in DOMAIN scores : scores[j] # NaN}

RECURSIVE SumNumerators(_, _)
SumNumerators(scores, J) ==
    IF J = {} THEN 0
    ELSE LET j == CHOOSE x \in J : TRUE
         IN  scores[j][1] + SumNumerators(scores, J \ {j})

\* C7: with more than one indicator requested, concordance_total is the
\* arithmetic mean of the per-indicator scores present for the patient; a
\* missing score enters neither the sum nor the count.
C7_TotalIsMeanOfPresent ==
    (pc = "done" /\ Len(indicators) > 1) =>
        \A i \in DOMAIN returned :
            LET scores == returned[i].scores
                n == Cardinality(Present(scores))
            IN  IF n = 0 THEN returned[i].total = NaN
                ELSE /\ returned[i].total # NaN
                     \* total = (sum of the numerators / evaluation_length) / n
                     /\ returned[i].total[1] * (n * evaluation_length)
                          = SumNumerators(scores, Present(scores)) * returned[i].total[2]

\* One patient has two different scores and a total strictly between them;
\* another has one score only, which is the total.
C7_Witness ==
    /\ pc = "done"
    /\ Len(indicators) = 2
    /\ \E i, m \in DOMAIN returned :
        /\ Present(returned[i].scores) = {1, 2}
        /\ ~RatLE(returned[i].total, returned[i].scores[1])
        /\ ~RatLE(returned[i].scores[2], returned[i].total)
        /\ Cardinality(Present(returned[m].scores)) = 1
        /\ \E j \in Present(returned[m].scores) :
               /\ RatEq(returned[m].total, returned[m].scores[j])
               /\ returned[m].scores[j][1] > 0

\* The requested indicators without an entry in the validity-duration
\* mapping, compared case-insensitively.
Unmapped ==
    {indicators[j] : j \in {x \in DOMAIN indicators :
        \A key \in DOMAIN validity_periods : Lower(key) # Lower(indicators[x])}}

NothingComputed ==
    /\ k = 1
    /\ warnings = <<>>
    /\ df_prepared = <<>>
    /\ df_scores_all = <<>>
    /\ returned = <<>>

\* C8 as stated: if a requested indicator has no entry in the mapping, the
\* call fails with an error that names every such indicator, before any
\* score is computed.
C8_Original ==
    (pc # "call" /\ Unmapped # {}) =>
        /\ pc = "raised"
        /\ error.kind = "missing_validity"
        /\ {error.names[i] : i \in DOMAIN error.names} = Unmapped
        /\ NothingComputed

\* C8 as amended: if a requested indicator has no entry in the mapping, the
\* call fails before any score is computed, and when the earlier checks of
\* validate_inputs pass (the table is not empty, the evaluation length is
\* positive) the error names every such indicator.
C8_MissingValidityRaises ==
    (pc # "call" /\ Unmapped # {}) =>
        /\ pc = "raised"
        /\ NothingComputed
        /\ (df_ # <<>> /\ evaluation_length > 0) =>
               /\ error.kind = "missing_validity"
               /\ {error.names[i] : i \in DOMAIN error.names} = Unmapped

\* The call has failed on the second of two requested indicators, the first
\* having an entry under another case.
C8_Witness ==
    /\ pc = "raised"
    /\ Len(indicators) = 2
    /\ Unmapped = {indicators[2]}
    /\ indicators[1] \notin DOMAIN validity_periods
    /\ error = [kind |-> "missing_validity", names |-> <<indicators[2]>>]
    /\ df_ # <<>>

====
